---- MODULE Spec2Model ----
(***************************************************************************)
(* Model of the availability monitor of pop-mart-watch:                    *)
(*   src/src/monitor.py      Monitor (registry, persistence, classifier,   *)
(*                           check_all_items)                              *)
(*   src/src/discord_bot.py  the watch / unwatch commands that call        *)
(*                           add_monitored_item / remove_monitored_item    *)
(*                           and on_ready / monitor_products, the tasks    *)
(*                           that run the ticks and deliver their events   *)
(*                                                                         *)
(* The asyncio event loop runs one coroutine at a time and switches only   *)
(* at an await that suspends.  check_all_items suspends inside             *)
(* check_item_status (monitor.py:476), so a command handler can run while  *)
(* an item's fetch is pending, and at no other point of a tick.            *)
(***************************************************************************)
EXTENDS Integers, Sequences, FiniteSets, TLC

(* ------------------------------ bounds --------------------------------- *)
\* ticks (calls of check_all_items) a behaviour may start
MaxTick == 2
\* add / remove requests a behaviour may make
MaxCalls == 3
\* restarts of the process a behaviour may make
MaxRestarts == 1
\* saves that do not complete (an I/O error, a crash) in a behaviour
MaxFaults == 1
\* phrases a page text is made of (classifier specification)
MaxPhrases == 2
\* on_ready events of a behaviour (task specification)
MaxReady == 4
\* ticks the monitoring tasks of a behaviour may start (task specification)
MaxTaskTicks == 4
\* cancellations requested in a behaviour (task specification)
MaxCancels == 2

(* ------------------------------ values --------------------------------- *)
\* Python's None
None == "None"
\* the value of a result variable before the routine was called
NotCalled == "not called"

\* ProductStatus values, monitor.py:35-41
UNKNOWN == "unknown"
IN_STOCK == "in_stock"
SOLD_OUT == "sold_out"
COMING_SOON == "coming_soon"
OFF_SHELF == "off_shelf"
ProductStatus == {UNKNOWN, IN_STOCK, SOLD_OUT, COMING_SOON, OFF_SHELF}

\* the inputs of the commands
URLS == {"https://x/1", "https://x/2"}
NAMES == {"Foo"}
ICONS == {None, "icon.png"}

\* datetime.now().isoformat(): the clock value as a string
isoformat(t) == <<"T1", "T2", "T3", "T4", "T5", "T6">>[t]

VARIABLES
    monitored_items,  \* self.monitored_items: url -> item dict
    file,             \* data/monitored_items.json
    pc,               \* where the monitoring coroutine / the process is
    items_to_check,   \* check_all_items: the snapshot dict(self.monitored_items)
    shared,           \* urls whose snapshot entry is the same dict object as the registry's
    todo,             \* urls of the snapshot the for loop has not reached yet
    url,              \* check_all_items: loop variable
    current_status,   \* check_all_items: local
    price,            \* check_all_items: local
    previous_status,  \* check_all_items: local
    notifications,    \* check_all_items: local list
    returned,         \* the list check_all_items returned in the last step, if it returned
    current_time,     \* check_all_items: local
    now,              \* the wall clock
    last_op,          \* the request the last step served, <<op, url>>, if it served one
    ret,              \* the value that request returned
    calls,            \* requests made
    restarts,         \* restarts made
    faults,           \* saves that did not complete
    failures,         \* history: url -> failed checks in a row of the registered entry
    sent,             \* the send attempts monitor_products made in the last step
    backup_file,      \* data/monitored_items.json.bak
    monitor_tasks,    \* task specification: the tasks on_ready created
    check_interval,   \* monitor.check_interval of config.yaml
    held,             \* classifier specification: what check_item_status left behind
    page,             \* the page handed to check_item_status
    result,           \* classifier specification: check_item_status's return value
    available         \* classifier specification: check_product_availability's return value

vars == <<monitored_items, file, pc, items_to_check, shared, todo, url,
          current_status, price, previous_status, notifications, current_time,
          now, last_op, ret, returned, calls, restarts, faults, failures, sent,
          backup_file, monitor_tasks, check_interval, held, page, result, available>>

tickVars == <<items_to_check, shared, todo, url, current_status, price,
              previous_status, notifications, current_time>>
classifierVars == <<page, result, available, held>>
\* what Monitor and check_all_items never touch
otherVars == <<backup_file, monitor_tasks, check_interval>>

(* ------------------------- dicts and JSON ------------------------------ *)
EmptyDict == [k \in {} |-> None]

\* dict.get(key, default)
Get(d, key, default) == IF key \in DOMAIN d THEN d[key] ELSE default

\* dict.update(upd)
Update(d, upd) ==
    [k \in DOMAIN d \cup DOMAIN upd |-> IF k \in DOMAIN upd THEN upd[k] ELSE d[k]]

\* d[key] = value
SetKey(d, key, value) ==
    [k \in DOMAIN d \cup {key} |-> IF k = key THEN value ELSE d[k]]

\* mutant: the key is not deleted
DelKey_keeps(d, key) == d

\* del d[key]
DelKey(d, key) == [k \in DOMAIN d \ {key} |-> d[k]]

\* json.dump of a value of an item dict: None is written as null, a str as a JSON string
json_value(v) == IF v = None THEN <<"null">> ELSE <<"string", v>>

\* json.dump(self.monitored_items, ...): a JSON object of JSON objects
json_dump(items) ==
    [u \in DOMAIN items |-> [k \in DOMAIN items[u] |-> json_value(items[u][k])]]

\* json.load of one JSON value
python_value(j) == IF j[1] = "null" THEN None ELSE j[2]

\* json.load(f)
json_load(text) ==
    [u \in DOMAIN text |-> [k \in DOMAIN text[u] |-> python_value(text[u][k])]]

\* the states of the data file: absent, a complete JSON document, or the
\* beginning of one (open(..., 'w') truncates, json.dump writes piece by piece)
MissingFile == [kind |-> "missing", text |-> EmptyDict]
PartialFile == [kind |-> "partial", text |-> EmptyDict]
JsonFile(text) == [kind |-> "json", text |-> text]

\* what can happen to a save: it completes, open() raises, the write raises
\* part-way, or the process dies part-way
SaveOutcomes == {"ok", "open_error", "write_error", "crash"}

\* the outcomes a save can have now
MaySave(o) == o = "ok" \/ faults < MaxFaults
\* counting the save with outcome o
Saved(o) == faults' = IF o = "ok" THEN faults ELSE faults + 1
\* the step served no request
NoRequest == last_op' = <<None, None>> /\ ret' = None
\* the step is not a return of check_all_items
NoReturn == returned' = <<>> /\ sent' = <<>>

(* ----------------------------- persistence ----------------------------- *)
\* mutant: the save writes nothing
save_monitored_items_skipped(items, f, o) == f

\* Monitor._save_monitored_items: the file after a save of `items` over file f
\* with outcome o.  An exception is caught and logged (monitor.py:128-129).
save_monitored_items(items, f, o) ==
    CASE o = "ok"          -> JsonFile(json_dump(items))
      [] o = "open_error"  -> f
      [] o = "write_error" -> PartialFile
      [] o = "crash"       -> PartialFile

\* the compatibility loop of _load_monitored_items (monitor.py:116-118): a
\* last_status that is a str, or None or missing, is replaced by "unknown".
\* Every status this program writes is a str.
convert_status(item) == SetKey(item, "last_status", UNKNOWN)

\* Monitor._load_monitored_items, on top of self.monitored_items = {} of
\* __init__: a missing file leaves the registry empty, a file json.load cannot
\* parse raises and the handler resets the registry to {}
load_monitored_items(f) ==
    CASE f.kind = "missing" -> EmptyDict
      [] f.kind = "partial" -> EmptyDict
      [] f.kind = "json"    ->
            LET loaded == json_load(f.text)
            IN  [u \in DOMAIN loaded |-> convert_status(loaded[u])]

(* ------------------------------ classifier ----------------------------- *)
\* A page text is a sequence of words; `keyword in html_lower` is modelled as
\* "the keyword's words occur consecutively in the text".

\* str.lower() on a word
LowerWord(w) ==
    CASE w = "ADD" -> "add"         [] w = "TO" -> "to"
      [] w = "BAG" -> "bag"         [] w = "Add" -> "add"
      [] w = "Cart" -> "cart"       [] w = "BUY" -> "buy"
      [] w = "NOW" -> "now"         [] w = "SOLD" -> "sold"
      [] w = "OUT" -> "out"         [] w = "NOTIFY" -> "notify"
      [] w = "ME" -> "me"           [] w = "WHEN" -> "when"
      [] w = "AVAILABLE" -> "available"
      [] w = "Item" -> "item"       [] w = "Unavailable" -> "unavailable"
      [] OTHER -> w

\* str.lower()
lower(text) == [i \in 1..Len(text) |-> LowerWord(text[i])]

\* keyword in text
Contains(keyword, text) ==
    \E i \in 1..(Len(text) - Len(keyword) + 1) :
        SubSeq(text, i, i + Len(keyword) - 1) = keyword

\* Monitor.AVAILABLE_KEYWORDS, monitor.py:57-69
AVAILABLE_KEYWORDS == <<
    <<"ADD", "TO", "BAG">>, <<"add", "to", "bag">>, <<"add", "to", "cart">>,
    <<"buy", "now">>, <<"purchase">>, <<"checkout">>, <<"in", "stock">>,
    <<"add", "to", "shopping", "bag">>, <<"add", "to", "my", "bag">>,
    <<"Add", "to", "Cart">>, <<"BUY", "NOW">> >>

\* Monitor.SOLD_OUT_KEYWORDS, monitor.py:72-84
SOLD_OUT_KEYWORDS == <<
    <<"SOLD", "OUT">>, <<"sold", "out">>, <<"out", "of", "stock">>,
    <<"notify", "me", "when", "available">>,
    <<"NOTIFY", "ME", "WHEN", "AVAILABLE">>,
    <<"currently", "unavailable">>, <<"not", "available">>,
    <<"Item", "Unavailable">>, <<"item", "unavailable">>, <<"Unavailable">>,
    <<"Item", "unavailable">> >>

\* Monitor.COMING_SOON_KEYWORDS, monitor.py:87-91
COMING_SOON_KEYWORDS == <<
    <<"coming", "soon">>, <<"stay", "tuned">>, <<"notify", "me">> >>

\* not_found_indicators, monitor.py:499-506 (the two Chinese phrases are
\* written in pinyin)
not_found_indicators == <<
    <<"404">>, <<"page", "not", "found">>, <<"zhaobudao", "yemian">>,
    <<"yemian", "bucunzai">>, <<"product", "is", "not", "available">>,
    <<"product", "not", "found">> >>

\* for keyword in keywords: if keyword.lower() in html_lower
any_keyword(keywords, html_lower) ==
    \E i \in 1..Len(keywords) : Contains(lower(keywords[i]), html_lower)

\* the inner function check_404_status of check_item_status: the value it
\* leaves in is_404.  An exception of the probe is caught and logged, leaving
\* is_404 False.
check_404_status(pg) ==
    IF pg.probe_error THEN FALSE
    ELSE \/ pg.response_status = 404
         \/ pg.url_marker
         \/ pg.title_marker
         \/ /\ pg.missing_elements >= 2
            /\ any_keyword(not_found_indicators, lower(pg.html))

\* the price loop of check_status, monitor.py:588-596: the text of the first
\* price element that holds a '$'
extract_price(price_elements) ==
    IF \E i \in 1..Len(price_elements) : price_elements[i].dollar
    THEN LET i == CHOOSE i \in 1..Len(price_elements) :
                    /\ price_elements[i].dollar
                    /\ \A j \in 1..(i - 1) : ~price_elements[j].dollar
         IN  price_elements[i].text
    ELSE None

\* mutant: the available keywords are tried first, as in check_product_availability
check_status_available_first(pg) ==
    LET html_lower == lower(pg.html)
    IN  IF any_keyword(AVAILABLE_KEYWORDS, html_lower)
        THEN <<IN_STOCK, extract_price(pg.price_elements)>>
        ELSE IF any_keyword(SOLD_OUT_KEYWORDS, html_lower) THEN <<SOLD_OUT, None>>
        ELSE IF any_keyword(COMING_SOON_KEYWORDS, html_lower) THEN <<COMING_SOON, None>>
        ELSE <<UNKNOWN, None>>

\* the inner function check_status of check_item_status
check_status(pg) ==
    LET html_lower == lower(pg.html)
    IN  IF any_keyword(SOLD_OUT_KEYWORDS, html_lower) THEN <<SOLD_OUT, None>>
        ELSE IF any_keyword(COMING_SOON_KEYWORDS, html_lower) THEN <<COMING_SOON, None>>
        ELSE IF any_keyword(AVAILABLE_KEYWORDS, html_lower)
             THEN <<IN_STOCK, extract_price(pg.price_elements)>>
        ELSE <<UNKNOWN, None>>

\* Monitor.check_item_status: <<status, price>>.  No driver, a page-load
\* timeout, a WebDriverException and any other exception all return
\* (UNKNOWN, None).
check_item_status(pg) ==
    IF pg.fetch # "ok" THEN <<UNKNOWN, None>>
    ELSE IF check_404_status(pg) THEN <<OFF_SHELF, None>>
    ELSE check_status(pg)

\* Monitor.check_product_availability: "True", "False" or "None"
check_product_availability(pg) ==
    IF pg.fetch # "ok" THEN "None"
    ELSE LET page_content == lower(pg.html)
         IN  IF any_keyword(AVAILABLE_KEYWORDS, page_content) THEN "True"
             ELSE IF any_keyword(SOLD_OUT_KEYWORDS, page_content) THEN "False"
             ELSE "None"

(* ------------------------ resources of a check ------------------------- *)
\* How create_driver ends: the driver is created; no chromedriver is found
\* (return None, monitor.py:210-212); an exception after the two mkdtemp
\* calls, as when webdriver.Chrome raises; the first mkdtemp raises.
DriverOutcomes == {"created", "not_found", "chrome_error", "mkdtemp_error"}

\* no driver and no temporary directory
NothingHeld == [driver |-> FALSE, temp_dirs |-> {}]

\* Monitor.create_driver: whether a driver is returned, and the temporary
\* directories it leaves on disk (and in Monitor._temp_dirs).  The handler
\* at monitor.py:266-271 removes temp_dir only.
create_driver(d) ==
    CASE d = "created"       -> [driver |-> TRUE, temp_dirs |-> {"chrome_", "chrome_user_"}]
      [] d = "not_found"     -> [driver |-> FALSE, temp_dirs |-> {"chrome_", "chrome_user_"}]
      [] d = "chrome_error"  -> [driver |-> FALSE, temp_dirs |-> {"chrome_user_"}]
      [] d = "mkdtemp_error" -> NothingHeld

\* What check_item_status leaves behind when it returns: driver.quit() runs
\* on every path that has a driver (finally, monitor.py:612-617, and
\* 624-629); nothing removes the directories (cleanup_temp_dirs is never
\* called).
resources_after_check(d) ==
    [driver |-> FALSE, temp_dirs |-> create_driver(d).temp_dirs]

\* Config.check_interval without a configuration value, config.py:86
default_check_interval == 60
\* the values config.yaml gives monitor.check_interval in the task specification
CheckIntervals == {30, 60}

(* -------------------------------- pages -------------------------------- *)
\* A fetched page: what the driver reports about it.
\*   fetch            "ok", or the way the fetch failed
\*   html             driver.page_source, as words
\*   response_status  window.performance.getEntries()[0].responseStatus
\*   url_marker       "404" or "error" in driver.current_url
\*   title_marker     "404", "not found" or "error" in driver.title
\*   missing_elements how many of the three key_elements are not found
\*   probe_error      the 404 probe raises (caught inside check_404_status)
\*   price_elements   the elements the price XPath finds
OkPage(html, response_status, url_marker, title_marker, missing_elements, probe_error, price_elements) ==
    [fetch |-> "ok", html |-> html, response_status |-> response_status,
     url_marker |-> url_marker, title_marker |-> title_marker,
     missing_elements |-> missing_elements, probe_error |-> probe_error,
     price_elements |-> price_elements]

\* a product page that loads normally and shows `html`
PlainPage(html, price_elements) ==
    OkPage(html, 200, FALSE, FALSE, 0, FALSE, price_elements)

\* create_driver returns None, driver.get times out, WebDriverException, other
FetchFailures == {"no_driver", "timeout", "webdriver_error", "error"}
FailedPage(kind) ==
    [fetch |-> kind, html |-> <<>>, response_status |-> 200,
     url_marker |-> FALSE, title_marker |-> FALSE, missing_elements |-> 0,
     probe_error |-> FALSE, price_elements |-> <<>>]
NoPage == FailedPage("none")

NoPrice == << [text |-> "Price", dollar |-> FALSE] >>
WithPrice == << [text |-> "Price", dollar |-> FALSE], [text |-> "$10", dollar |-> TRUE] >>

\* the phrases page texts are built from
PHRASES == {
    <<"NOTIFY", "ME", "WHEN", "AVAILABLE">>,
    <<"sold", "out">>,
    <<"coming", "soon">>,
    <<"notify", "me">>,
    <<"add", "to", "cart">>,
    <<"ADD", "TO", "BAG">>,
    <<"product", "is", "not", "available">>,
    <<"404">>,
    <<"hello">> }

RECURSIVE TextsOfLen(_)
TextsOfLen(n) ==
    IF n = 0 THEN { <<>> }
    ELSE { ph \o t : ph \in PHRASES, t \in TextsOfLen(n - 1) }
Texts == UNION { TextsOfLen(n) : n \in 0..MaxPhrases }

\* the pages of the classifier specification
Pages ==
    { OkPage(html, rs, um, tm, me, pe, pr) :
        html \in Texts, rs \in {200, 404}, um \in BOOLEAN, tm \in BOOLEAN,
        me \in 0..3, pe \in BOOLEAN, pr \in {NoPrice, WithPrice} }
    \cup { FailedPage(k) : k \in FetchFailures }

\* the pages a tick meets: one page for every result check_item_status has
TickPages == {
    FailedPage("timeout"),
    PlainPage(<<"sold", "out">>, NoPrice),
    PlainPage(<<"ADD", "TO", "BAG">>, WithPrice) }

(* ------------------------------- registry ------------------------------ *)
\* the dict add_monitored_item stores, monitor.py:155-161
NewItem(name, icon_url) ==
    [name |-> name, last_status |-> UNKNOWN, last_check |-> None,
     last_notification |-> None, icon_url |-> icon_url]

\* mutant: the membership test always fails
is_registered_never(u) == FALSE

\* url in self.monitored_items
is_registered(u) == u \in DOMAIN monitored_items

\* the command handlers run while the monitoring coroutine is suspended:
\* between ticks, or inside check_item_status
CommandMayRun == pc \in {"idle", "fetch"}

\* Monitor.add_monitored_item(url, name, icon_url), its save ending with outcome o
add_monitored_item(u, name, icon_url, o) ==
    /\ CommandMayRun
    /\ calls < MaxCalls
    /\ calls' = calls + 1
    /\ NoReturn
    /\ last_op' = <<"add", u>>
    /\ IF is_registered(u)
       THEN /\ ret' = "False"
            /\ UNCHANGED <<monitored_items, file, pc, faults, failures>>
       ELSE /\ MaySave(o)
            /\ Saved(o)
            /\ monitored_items' = SetKey(monitored_items, u, NewItem(name, icon_url))
            /\ failures' = SetKey(failures, u, 0)
            /\ file' = save_monitored_items(monitored_items', file, o)
            /\ IF o = "crash"
               THEN pc' = "crashed" /\ ret' = None
               ELSE pc' = pc /\ ret' = "True"
    /\ UNCHANGED <<tickVars, now, restarts, classifierVars, otherVars>>

\* Monitor.remove_monitored_item(url), its save ending with outcome o
remove_monitored_item(u, o) ==
    /\ CommandMayRun
    /\ calls < MaxCalls
    /\ calls' = calls + 1
    /\ NoReturn
    /\ last_op' = <<"remove", u>>
    /\ IF ~is_registered(u)
       THEN /\ ret' = "False"
            /\ UNCHANGED <<monitored_items, file, pc, shared, faults, failures>>
       ELSE /\ MaySave(o)
            /\ Saved(o)
            /\ monitored_items' = DelKey(monitored_items, u)
            /\ failures' = DelKey(failures, u)
            /\ shared' = shared \ {u}
            /\ file' = save_monitored_items(monitored_items', file, o)
            /\ IF o = "crash"
               THEN pc' = "crashed" /\ ret' = None
               ELSE pc' = pc /\ ret' = "True"
    /\ UNCHANGED <<items_to_check, todo, url, current_status, price,
                   previous_status, notifications, current_time, now,
                   restarts, classifierVars, otherVars>>

(* --------------------------- check_all_items --------------------------- *)
\* the locals of check_all_items outside a call of it
NoTick ==
    /\ items_to_check' = EmptyDict
    /\ shared' = {}
    /\ todo' = {}
    /\ url' = None
    /\ current_status' = None
    /\ price' = None
    /\ previous_status' = None
    /\ notifications' = <<>>
    /\ current_time' = None

\* mutant: every check counts as a change
status_changed_always(current, previous) == TRUE

\* monitor.py:654: current_status.value != previous_status
status_changed(current, previous) == current # previous

\* monitor.py:659-664: the fields written when the status changed
changed_fields(current, time, pr) ==
    [last_status |-> current, last_check |-> time,
     last_notification |-> time, price |-> pr]

\* monitor.py:667-673: status_messages.get(current_status.value, ...)
status_messages(status, pr) ==
    CASE status = IN_STOCK    -> IF pr # None THEN "in stock, price" ELSE "in stock"
      [] status = SOLD_OUT    -> "sold out"
      [] status = COMING_SOON -> "coming soon"
      [] status = OFF_SHELF   -> "off shelf"
      [] status = UNKNOWN     -> "status unknown"

\* monitor.py:675-682: the notification dict
notification(u, item, current, pr) ==
    [url |-> u, name |-> item["name"], status |-> current,
     message |-> status_messages(current, pr), price |-> pr,
     icon_url |-> Get(item, "icon_url", None)]

\* self.monitored_items[url] = item.  The snapshot's entry for a url in
\* `shared` is the same dict object, so the write shows through it.
WriteItem(u, item) ==
    /\ monitored_items' = SetKey(monitored_items, u, item)
    /\ items_to_check' = IF u \in shared THEN SetKey(items_to_check, u, item)
                         ELSE items_to_check

\* history of the checks: the failed checks in a row of the entry registered
\* for u, after the check of u met the page pg.  The code keeps no such count.
count_failure(counts, u, pg) ==
    IF u \notin DOMAIN counts THEN counts
    ELSE SetKey(counts, u, IF pg.fetch # "ok" THEN counts[u] + 1 ELSE 0)

\* the attributes a dict object has (those a notification could be asked for)
dict_attributes == {"get", "keys", "values", "items", "update", "pop", "copy"}

\* notification.<name> on a notification, which is a dict: AttributeError
\* unless <name> is an attribute of dict
raises_AttributeError(obj, name) == name \notin dict_attributes

\* mutant: every notification is sent
send_attempts_each(notifs) == notifs

\* discord_bot.py:268-315, the body of `for notification in notifications`:
\* the send attempts made.  Building status_messages reads notification.price
\* first (line 271); the AttributeError leaves the loop for the handler at
\* line 313, so nothing is sent for this notification or any after it.
send_attempts(notifs) ==
    IF notifs = <<>> THEN <<>>
    ELSE IF raises_AttributeError(notifs[1], "price") THEN <<>>
    ELSE notifs

\* DiscordBot.check_and_notify, discord_bot.py:352-366: the notifications for
\* which channel.send is called when the sends of the notifications at the
\* positions `failing` raise.  The loop has no handler of its own: the first
\* send that raises leaves it for the handler at line 370.
check_and_notify_sends(notifs, failing) ==
    LET raised == { i \in 1..Len(notifs) : i \in failing }
        last == IF raised = {} THEN Len(notifs)
                ELSE CHOOSE i \in raised : \A j \in raised : i <= j
    IN  SubSeq(notifs, 1, last)

\* monitor.py:635-639: the head of check_all_items; dict(self.monitored_items)
\* copies the mapping, the item dicts stay shared
check_all_items_begin ==
    /\ pc = "idle"
    /\ now < MaxTick
    /\ now' = now + 1
    /\ notifications' = <<>>
    /\ current_time' = isoformat(now')
    /\ items_to_check' = monitored_items
    /\ shared' = DOMAIN monitored_items
    /\ todo' = DOMAIN monitored_items
    /\ pc' = "loop"
    /\ NoRequest
    /\ NoReturn
    /\ UNCHANGED <<monitored_items, file, url, current_status, price,
                   previous_status, calls, restarts, faults, failures,
                   classifierVars, otherVars>>

\* mutant: the loop may take a url of the snapshot again
check_all_items_fetch_again(u) ==
    /\ pc = "loop"
    /\ u \in DOMAIN items_to_check
    /\ url' = u
    /\ todo' = todo \ {u}
    /\ pc' = "fetch"
    /\ current_status' = None
    /\ price' = None
    /\ previous_status' = None
    /\ page' = NoPage
    /\ NoRequest
    /\ NoReturn
    /\ UNCHANGED <<monitored_items, file, items_to_check, shared, notifications,
                   current_time, now, calls, restarts, faults, failures,
                   result, available, held, otherVars>>

\* monitor.py:641-643: the loop takes the next url of the snapshot and awaits
\* check_item_status(url).  (The code takes them in the dict's order; the
\* model allows every order.)
check_all_items_fetch(u) ==
    /\ pc = "loop"
    /\ u \in todo
    /\ url' = u
    /\ todo' = todo \ {u}
    /\ pc' = "fetch"
    \* the values of the previous iteration are never read again
    /\ current_status' = None
    /\ price' = None
    /\ previous_status' = None
    /\ page' = NoPage
    /\ NoRequest
    /\ NoReturn
    /\ UNCHANGED <<monitored_items, file, items_to_check, shared, notifications,
                   current_time, now, calls, restarts, faults, failures,
                   result, available, held, otherVars>>

\* mutant: the result of a check of a url that was removed meanwhile is
\* applied to the snapshot's item, which is put back into the registry
check_all_items_update_reinserts(pg) ==
    /\ pc = "fetch"
    /\ url \notin DOMAIN monitored_items
    /\ LET checked == check_item_status(pg)
           item == items_to_check[url]
       IN  /\ current_status' = checked[1]
           /\ price' = checked[2]
           /\ previous_status' = Get(item, "last_status", UNKNOWN)
           /\ monitored_items' = SetKey(monitored_items, url, Update(item,
                    changed_fields(checked[1], current_time, checked[2])))
           /\ notifications' = Append(notifications,
                    notification(url, item, checked[1], checked[2]))
    /\ page' = pg
    /\ pc' = "loop"
    /\ NoRequest
    /\ NoReturn
    /\ UNCHANGED <<file, items_to_check, shared, todo, url, current_time, now,
                   calls, restarts, faults, failures, result, available, held,
                   otherVars>>

\* mutant: a failed fetch ends the tick
check_all_items_update_aborts(pg) ==
    /\ pc = "fetch"
    /\ pg.fetch # "ok"
    /\ pc' = "idle"
    /\ NoTick
    /\ page' = pg
    /\ NoRequest
    /\ NoReturn
    /\ UNCHANGED <<monitored_items, file, now, calls, restarts, faults, failures,
                   result, available, held, otherVars>>

\* monitor.py:643-687: check_item_status returns for the page pg, and the rest
\* of the loop body runs
check_all_items_update(pg) ==
    /\ pc = "fetch"
    /\ LET checked == check_item_status(pg)
           item == items_to_check[url]
           previous == Get(item, "last_status", UNKNOWN)
       IN  /\ current_status' = checked[1]
           /\ price' = checked[2]
           /\ previous_status' = previous
           /\ IF status_changed(checked[1], previous)
              THEN IF is_registered(url)
                   THEN /\ WriteItem(url, Update(monitored_items[url],
                                changed_fields(checked[1], current_time, checked[2])))
                        /\ notifications' = Append(notifications,
                                notification(url, item, checked[1], checked[2]))
                   ELSE UNCHANGED <<monitored_items, items_to_check, notifications>>
              ELSE /\ IF is_registered(url)
                      THEN WriteItem(url, SetKey(monitored_items[url],
                                                 "last_check", current_time))
                      ELSE UNCHANGED <<monitored_items, items_to_check>>
                   /\ UNCHANGED notifications
    /\ page' = pg
    /\ failures' = count_failure(failures, url, pg)
    /\ pc' = "loop"
    /\ NoRequest
    /\ NoReturn
    /\ UNCHANGED <<file, shared, todo, url, current_time, now, calls, restarts,
                   faults, result, available, held, otherVars>>

\* monitor.py:689-692: after the loop, save and return notifications
check_all_items_return(o) ==
    /\ pc = "loop"
    /\ todo = {}
    /\ MaySave(o)
    /\ Saved(o)
    /\ file' = save_monitored_items(monitored_items, file, o)
    /\ pc' = IF o = "crash" THEN "crashed" ELSE "idle"
    /\ returned' = IF o = "crash" THEN <<>> ELSE notifications
    /\ sent' = IF o = "crash" THEN <<>> ELSE send_attempts(notifications)
    /\ NoTick
    /\ page' = NoPage
    /\ NoRequest
    /\ UNCHANGED <<monitored_items, now, calls, restarts, failures, result,
                   available, held, otherVars>>

(* ------------------------------- process ------------------------------- *)
\* The process is started again (after a crash, or after it was stopped):
\* Monitor.__init__ builds the registry from the file.
Restart ==
    /\ restarts < MaxRestarts
    /\ restarts' = restarts + 1
    /\ monitored_items' = load_monitored_items(file)
    /\ failures' = [u \in DOMAIN monitored_items' |-> 0]
    /\ pc' = "idle"
    /\ NoTick
    /\ page' = NoPage
    /\ NoRequest
    /\ NoReturn
    /\ UNCHANGED <<file, now, calls, faults, result, available, held, otherVars>>

\* the first start, with no data file yet
MonitorInit ==
    /\ monitored_items = EmptyDict
    /\ file = MissingFile
    /\ pc = "idle"
    /\ items_to_check = EmptyDict
    /\ shared = {}
    /\ todo = {}
    /\ url = None
    /\ current_status = None
    /\ price = None
    /\ previous_status = None
    /\ notifications = <<>>
    /\ returned = <<>>
    /\ current_time = None
    /\ now = 0
    /\ last_op = <<None, None>>
    /\ ret = None
    /\ calls = 0
    /\ restarts = 0
    /\ faults = 0
    /\ failures = EmptyDict
    /\ sent = <<>>
    /\ backup_file = MissingFile
    /\ monitor_tasks = <<>>
    /\ held = NothingHeld

Init ==
    /\ MonitorInit
    /\ check_interval = default_check_interval
    /\ page = NoPage
    /\ result = <<NotCalled, NotCalled>>
    /\ available = NotCalled

Next ==
    \/ \E u \in URLS, name \in NAMES, icon_url \in ICONS, o \in SaveOutcomes :
            add_monitored_item(u, name, icon_url, o)
    \/ \E u \in URLS, o \in SaveOutcomes : remove_monitored_item(u, o)
    \/ check_all_items_begin
    \/ \E u \in URLS : check_all_items_fetch(u)
    \/ \E pg \in TickPages : check_all_items_update(pg)
    \/ \E o \in SaveOutcomes : check_all_items_return(o)
    \/ Restart

Spec == Init /\ [][Next]_vars

(* ----------------------- classifier specification ---------------------- *)
\* the routines applied to every page of Pages
monitorVars == <<monitored_items, file, pc, tickVars, now, last_op, ret, returned, calls, restarts, faults, failures, sent, otherVars>>

InitClassify ==
    /\ MonitorInit
    /\ check_interval = default_check_interval
    /\ page \in Pages
    /\ result = <<NotCalled, NotCalled>>
    /\ available = NotCalled

\* check_item_status is called on the page; create_driver ends in one of
\* the ways that fit the page
call_check_item_status ==
    /\ result = <<NotCalled, NotCalled>>
    /\ result' = check_item_status(page)
    /\ \E d \in DriverOutcomes :
            /\ (d = "created") <=> (page.fetch # "no_driver")
            /\ held' = resources_after_check(d)
    /\ UNCHANGED <<monitorVars, page, available>>

\* check_product_availability is called on the page
call_check_product_availability ==
    /\ available = NotCalled
    /\ available' = check_product_availability(page)
    /\ UNCHANGED <<monitorVars, page, result, held>>

NextClassify ==
    \/ call_check_item_status
    \/ call_check_product_availability

SpecClassify == InitClassify /\ [][NextClassify]_vars

(* -------------------------- task specification ------------------------ *)
\* DiscordBot.on_ready creates a task running monitor_products each time the
\* event fires (discord_bot.py:258), so several monitoring tasks can run on
\* the event loop.  A task runs without interruption from one await that
\* suspends to the next: from the start of a tick to its first
\* check_item_status, from the return of a check to the next check, and from
\* the return of the last check through the save, the return of
\* check_all_items and the delivery loop to the sleep of monitor_products.
\* Each step below is one such run.  No url is removed in this
\* specification, so the item dicts of a snapshot are those of the registry,
\* and every save succeeds.

\* a task as create_task leaves it: its coroutine has not started
NewTask ==
    [pc |-> "created", todo |-> {}, url |-> None, current_time |-> None,
     notifications |-> <<>>, cancel |-> FALSE, exit |-> None, sleep |-> None]

\* the attributes DiscordBot.__init__ and on_ready give the bot
bot_attributes == {"config", "tree", "monitor", "monitor_task"}

\* the seconds of the sleep in the handler, discord_bot.py:325
error_sleep == 60

\* discord_bot.py:318-325: the seconds monitor_products sleeps after a tick.
\* asyncio.sleep(self.check_interval) reads an attribute of the bot; when
\* the bot has none of that name the AttributeError is caught by `except
\* Exception` and the task sleeps error_sleep seconds.
sleep_seconds ==
    IF "check_interval" \in bot_attributes THEN check_interval ELSE error_sleep

\* the pages the checks of the tasks meet: the fetch ends in a timeout
TaskPages == { FailedPage("timeout") }

\* the url watched in the task specification
TaskUrls == { "https://x/1" }

\* the tasks whose cancellation has been requested
Cancelled == { t \in DOMAIN monitor_tasks : monitor_tasks[t].cancel }

\* mutant: a task with a cancellation pending is resumed like any other
resumes_normally_always(task) == TRUE

\* A task whose cancellation was requested is resumed by throwing
\* CancelledError into it; no handler of check_item_status, check_all_items
\* or monitor_products catches it where the task waits (`except Exception`
\* does not), so the task runs on normally only without a request pending.
resumes_normally(task) == ~task.cancel

\* DiscordBot.on_ready
on_ready ==
    /\ Len(monitor_tasks) < MaxReady
    /\ monitor_tasks' = Append(monitor_tasks, NewTask)
    /\ NoRequest
    /\ NoReturn
    /\ UNCHANGED <<monitored_items, file, pc, tickVars, now, calls, restarts,
                   faults, failures, backup_file, check_interval, classifierVars>>

\* the for loop of check_all_items at its head, in the task t whose locals
\* are `task`: it awaits the check of the next url, or after the last url
\* check_all_items saves and returns (monitor.py:689-692) and monitor_products
\* runs its delivery loop and sleeps (discord_bot.py:268-325)
TaskGoesOn(t, task) ==
    IF task.todo = {}
    THEN /\ monitor_tasks' = [monitor_tasks EXCEPT ![t] =
                [task EXCEPT !.pc = "sleep", !.url = None, !.current_time = None,
                             !.notifications = <<>>, !.sleep = sleep_seconds]]
         /\ file' = save_monitored_items(monitored_items', file, "ok")
         /\ returned' = task.notifications
         /\ sent' = send_attempts(task.notifications)
    ELSE /\ \E u \in task.todo :
                monitor_tasks' = [monitor_tasks EXCEPT ![t] =
                    [task EXCEPT !.pc = "fetch", !.url = u, !.todo = task.todo \ {u}]]
         /\ file' = file
         /\ NoReturn

\* monitor_products starts a tick in task t: discord_bot.py:263-266 and
\* monitor.py:635-643
task_begin(t) ==
    /\ t \in DOMAIN monitor_tasks
    /\ monitor_tasks[t].pc \in {"created", "sleep"}
    /\ resumes_normally(monitor_tasks[t])
    /\ now < MaxTaskTicks
    /\ now' = now + 1
    /\ UNCHANGED <<monitored_items, failures>>
    /\ TaskGoesOn(t, [monitor_tasks[t] EXCEPT !.todo = DOMAIN monitored_items,
                                              !.current_time = isoformat(now'),
                                              !.notifications = <<>>,
                                              !.sleep = None])
    /\ NoRequest
    /\ UNCHANGED <<pc, tickVars, calls, restarts, faults, backup_file, check_interval, classifierVars>>

\* check_item_status returns in task t for the page pg: the rest of the loop
\* body (monitor.py:643-687), then the loop goes on
task_resume(t, pg) ==
    /\ t \in DOMAIN monitor_tasks
    /\ monitor_tasks[t].pc = "fetch"
    /\ resumes_normally(monitor_tasks[t])
    /\ LET task == monitor_tasks[t]
           checked == check_item_status(pg)
           item == monitored_items[task.url]
           changed == status_changed(checked[1], Get(item, "last_status", UNKNOWN))
       IN  /\ monitored_items' =
                IF ~is_registered(task.url) THEN monitored_items
                ELSE IF changed
                THEN SetKey(monitored_items, task.url, Update(item,
                        changed_fields(checked[1], task.current_time, checked[2])))
                ELSE SetKey(monitored_items, task.url,
                        SetKey(item, "last_check", task.current_time))
           /\ failures' = count_failure(failures, task.url, pg)
           /\ TaskGoesOn(t, [task EXCEPT !.notifications =
                    IF changed /\ is_registered(task.url)
                    THEN Append(@, notification(task.url, item, checked[1], checked[2]))
                    ELSE @])
    /\ NoRequest
    /\ UNCHANGED <<pc, tickVars, now, calls, restarts, faults, backup_file, check_interval, classifierVars>>

\* Task.cancel() is called on the task t while it is suspended (by
\* asyncio.run when the program shuts down, src/main.py:22)
request_cancel(t) ==
    /\ t \in DOMAIN monitor_tasks
    /\ monitor_tasks[t].pc \in {"created", "fetch", "sleep"}
    /\ ~monitor_tasks[t].cancel
    /\ Cardinality(Cancelled) < MaxCancels
    /\ monitor_tasks' = [monitor_tasks EXCEPT ![t].cancel = TRUE]
    /\ NoRequest
    /\ NoReturn
    /\ UNCHANGED <<monitored_items, file, pc, tickVars, now, calls, restarts,
                   faults, failures, backup_file, check_interval, classifierVars>>

\* the event loop resumes the task t with CancelledError: it leaves
\* check_item_status through its finally (monitor.py:612-617), check_all_items
\* without the save, and the while loop of monitor_products (from the sleep:
\* discord_bot.py:319-325), and the task ends
deliver_cancel(t) ==
    /\ t \in DOMAIN monitor_tasks
    /\ monitor_tasks[t].pc \in {"created", "fetch", "sleep"}
    /\ monitor_tasks[t].cancel
    /\ monitor_tasks' = [monitor_tasks EXCEPT ![t] =
            [NewTask EXCEPT !.pc = "done", !.cancel = TRUE, !.exit = monitor_tasks[t].pc]]
    /\ NoRequest
    /\ NoReturn
    /\ UNCHANGED <<monitored_items, file, pc, tickVars, now, calls, restarts,
                   faults, failures, backup_file, check_interval, classifierVars>>

NextTasks ==
    \/ on_ready
    \/ \E u \in TaskUrls, name \in NAMES :
            ~is_registered(u) /\ add_monitored_item(u, name, None, "ok")
    \/ \E t \in 1..MaxReady : task_begin(t)
    \/ \E t \in 1..MaxReady, pg \in TaskPages : task_resume(t, pg)
    \/ \E t \in 1..MaxReady : request_cancel(t)
    \/ \E t \in 1..MaxReady : deliver_cancel(t)

\* the first start, with some check_interval configured
InitTasks ==
    /\ MonitorInit
    /\ check_interval \in CheckIntervals
    /\ page = NoPage
    /\ result = <<NotCalled, NotCalled>>
    /\ available = NotCalled

SpecTasks == InitTasks /\ [][NextTasks]_vars

\* the event loop runs a task that is ready: a task whose cancellation was
\* requested is resumed
FairSpecTasks == SpecTasks /\ \A t \in 1..MaxReady : WF_vars(deliver_cancel(t))

(* ======================== properties: the tick ========================= *)
\* the step is the rest of the loop body after an item's check returned
UpdateStep == pc = "fetch" /\ pc' = "loop"

\* the step appended one notification, for the url that was checked
EventAdded ==
    /\ Len(notifications') = Len(notifications) + 1
    /\ SubSeq(notifications', 1, Len(notifications)) = notifications
    /\ notifications'[Len(notifications')]["url"] = url

\* the status the registry stores for the checked url; for a url that was
\* removed during its check, the status it had when the tick began
StoredStatus ==
    IF url \in DOMAIN monitored_items
    THEN monitored_items[url]["last_status"]
    ELSE items_to_check[url]["last_status"]

\* C1 (as claimed): for every item check of a tick, a notification for the
\* item is added if and only if the status the check returned differs from
\* the item's previously stored status.
C1_EventIffStatusDiffers ==
    [][UpdateStep => (EventAdded <=> current_status' # StoredStatus)]_vars

\* C1 (amended): a notification for the item is added if and only if the url
\* is still registered when its check returns and the returned status differs
\* from the last_status of the item the tick's snapshot holds for the url;
\* otherwise the list of notifications is left as it was.
C1_EventIffChangedAndRegistered ==
    [][UpdateStep =>
        /\ EventAdded <=> /\ url \in DOMAIN monitored_items
                          /\ current_status' # items_to_check[url]["last_status"]
        /\ ~EventAdded => notifications' = notifications]_vars

\* C1 witness: a tick checked two items, one with a changed status and one
\* with the same status, and holds exactly one notification.
C1_Witness ==
    /\ pc = "loop"
    /\ todo = {}
    /\ Cardinality(DOMAIN items_to_check) = 2
    /\ current_status # None
    /\ current_status = previous_status
    /\ Len(notifications) = 1

\* C2 (as claimed): when the check of a registered item returns the status
\* already stored for it, no event is produced, of that item only last_check
\* changes, and no other item changes.
C2_SameStatusOnlyLastCheck ==
    [][(/\ UpdateStep
        /\ url \in DOMAIN monitored_items
        /\ current_status' = monitored_items[url]["last_status"]) =>
        /\ notifications' = notifications
        /\ DOMAIN monitored_items' = DOMAIN monitored_items
        /\ \A u \in DOMAIN monitored_items \ {url} :
                monitored_items'[u] = monitored_items[u]
        /\ DOMAIN monitored_items'[url] = DOMAIN monitored_items[url]
        /\ \A k \in DOMAIN monitored_items[url] \ {"last_check"} :
                monitored_items'[url][k] = monitored_items[url][k]]_vars

\* C3 (as claimed): when the check of a registered item returns a status S'
\* different from the stored status S, exactly one event is added for the
\* item, the event carries the previous status S and the new status S', and
\* the stored status becomes S'.
C3_OneEventWithOldAndNewStatus ==
    [][(/\ UpdateStep
        /\ url \in DOMAIN monitored_items
        /\ current_status' # monitored_items[url]["last_status"]) =>
        /\ EventAdded
        /\ LET event == notifications'[Len(notifications')]
           IN  /\ event["status"] = current_status'
               /\ "old_status" \in DOMAIN event
               /\ event["old_status"] = monitored_items[url]["last_status"]
        /\ monitored_items'[url]["last_status"] = current_status']_vars

\* the step is the return of check_all_items to monitor_products, which then
\* runs its delivery loop and goes to sleep
ReturnStep == pc = "loop" /\ pc' = "idle" /\ restarts' = restarts

\* C16 (as claimed): when a tick has returned, one send attempt has been made
\* for each of its events, in the step after all its checks, and no event is
\* left without an attempt.
C16_EveryEventSentOnce ==
    [][ReturnStep => sent' = notifications]_vars

\* C17 (as claimed): the previous status a check compares with is the status
\* the registry stores for the url when the result is applied, and after the
\* update of a url that is still registered the stored status is the status
\* the check returned.
C17_PreviousStatusIsRegistrys ==
    [][(UpdateStep /\ url \in DOMAIN monitored_items) =>
        /\ previous_status' = monitored_items[url]["last_status"]
        /\ monitored_items'[url]["last_status"] = current_status']_vars

\* C18 (as claimed): from the moment the snapshot is taken until the tick
\* ends, what the snapshot holds does not change, whatever is added to,
\* removed from or written to the registry.
C18_SnapshotIsolated ==
    [][(pc \in {"loop", "fetch"} /\ pc' \in {"loop", "fetch"}) =>
            items_to_check' = items_to_check]_vars

\* C23: a tick checks each url of the snapshot taken at its start once: the
\* snapshot is the registry's urls at the start; each check takes a url not
\* yet checked; nothing else, a failed check and an add or remove during a
\* check included, changes the urls of the snapshot or puts a url back; and
\* the tick ends when none is left.
C23_EachSnapshotUrlOnce ==
    /\ [][(pc = "idle" /\ pc' = "loop") =>
            /\ DOMAIN items_to_check' = DOMAIN monitored_items
            /\ todo' = DOMAIN monitored_items]_vars
    /\ [][(pc = "loop" /\ pc' = "fetch") =>
            /\ url' \in todo
            /\ todo' = todo \ {url'}
            /\ DOMAIN items_to_check' = DOMAIN items_to_check]_vars
    /\ [][(pc = "fetch" /\ pc' \in {"loop", "fetch"}) =>
            /\ todo' = todo
            /\ url' = url
            /\ DOMAIN items_to_check' = DOMAIN items_to_check]_vars
    /\ [][ReturnStep => todo = {}]_vars

\* C23 witness: a tick over one url whose fetch failed has checked it and is
\* at its end, and the url added during that fetch was not checked.
C23_Witness ==
    /\ pc = "loop"
    /\ todo = {}
    /\ page.fetch \in FetchFailures
    /\ Cardinality(DOMAIN items_to_check) = 1
    /\ \E u \in DOMAIN monitored_items :
            /\ u \notin DOMAIN items_to_check
            /\ monitored_items[u]["last_check"] = None

\* C24: when the check of a url that is no longer registered returns, the
\* registry is left as it is (the item is not put back, nothing is written)
\* and no event is added to the tick's result.
C24_RemovedItemStaysRemoved ==
    [][(pc = "fetch" /\ pc' = "loop" /\ url \notin DOMAIN monitored_items) =>
            /\ monitored_items' = monitored_items
            /\ notifications' = notifications
            /\ file' = file]_vars

\* C24 witness: the check of a url removed during its fetch returned a
\* status other than the one the snapshot holds, and the tick has no event.
C24_Witness ==
    /\ pc = "loop"
    /\ url \in DOMAIN items_to_check
    /\ url \notin DOMAIN monitored_items
    /\ current_status \in ProductStatus
    /\ current_status # previous_status
    /\ notifications = <<>>

\* seq holds the event e
Attempted(seq, e) == \E i \in 1..Len(seq) : seq[i] = e

\* C26 (as claimed): for a tick that returns two or more events, a failure
\* in the delivery of one event leaves the attempts for the others in place:
\* in monitor_products every event after the first is attempted, and in
\* check_and_notify every event is attempted whichever sends raise.
C26_DeliveryFailureIsolated ==
    [][(ReturnStep /\ Len(notifications) >= 2) =>
        /\ \A i \in 2..Len(notifications) : Attempted(sent', notifications[i])
        /\ \A failing \in SUBSET (1..Len(notifications)) :
                check_and_notify_sends(notifications, failing) = notifications]_vars

\* C27 (as claimed): in every state of the registry an item with a stored
\* price is in_stock, and an item with a last_notification has a last_check.
C27_PriceAndNotificationInvariant ==
    \A u \in DOMAIN monitored_items :
        /\ Get(monitored_items[u], "price", None) # None =>
                monitored_items[u]["last_status"] = IN_STOCK
        /\ monitored_items[u]["last_notification"] # None =>
                monitored_items[u]["last_check"] # None

\* C27 without a restart
C27_HoldsUntilRestart == restarts = 0 => C27_PriceAndNotificationInvariant

(* ====================== properties: the registry ======================= *)
\* the step served add_monitored_item(u, ...) / remove_monitored_item(u)
AddStep(u) == last_op' = <<"add", u>>
RemoveStep(u) == last_op' = <<"remove", u>>
\* the request returned (the process did not die in its save)
Returns == pc' # "crashed"

\* the file holds the whole of the registry `items`
FileHolds(f, items) == f = JsonFile(json_dump(items))

\* the registry after the step is the one before it plus a fresh entry for u
Inserted(u) ==
    /\ DOMAIN monitored_items' = DOMAIN monitored_items \cup {u}
    /\ \A v \in DOMAIN monitored_items \ {u} : monitored_items'[v] = monitored_items[v]
    /\ monitored_items'[u]["last_status"] = UNKNOWN
    /\ monitored_items'[u]["last_check"] = None
    /\ monitored_items'[u]["last_notification"] = None

\* the registry after the step is the one before it without u
Deleted(u) ==
    /\ DOMAIN monitored_items' = DOMAIN monitored_items \ {u}
    /\ \A v \in DOMAIN monitored_items' : monitored_items'[v] = monitored_items[v]

\* C4: add_monitored_item with a url that is already registered returns False
\* and leaves the registry (and the file) unchanged.
C4_AddExistingIsNoOp ==
    [][\A u \in URLS :
        (AddStep(u) /\ u \in DOMAIN monitored_items) =>
            /\ ret' = "False"
            /\ monitored_items' = monitored_items
            /\ file' = file]_vars

\* C4 witness: the second of two adds of the same url to an empty registry
\* returned False and the registry holds one entry.
C4_Witness ==
    /\ calls = 2
    /\ last_op[1] = "add"
    /\ ret = "False"
    /\ Cardinality(DOMAIN monitored_items) = 1

\* C5 (as claimed): add_monitored_item with an unregistered url returns True,
\* inserts an Unknown entry with null last_check and last_notification, and
\* when it returns the file has been rewritten and holds the new entry.
C5_AddPersistsBeforeReturn ==
    [][\A u \in URLS :
        (AddStep(u) /\ u \notin DOMAIN monitored_items /\ Returns) =>
            /\ ret' = "True"
            /\ Inserted(u)
            /\ FileHolds(file', monitored_items')]_vars

\* C5 (amended): ... and when it returns the file has been rewritten with the
\* registry that holds the new entry, unless the write raised; then the
\* error is only logged, add still returns True, and the file is as it was or
\* truncated.
C5_AddPersistsUnlessWriteFails ==
    [][\A u \in URLS :
        (AddStep(u) /\ u \notin DOMAIN monitored_items /\ Returns) =>
            /\ ret' = "True"
            /\ Inserted(u)
            /\ faults' = faults => FileHolds(file', monitored_items')
            /\ faults' # faults => file' \in {file, PartialFile}]_vars

\* C5 witness: an add returned True and the file holds the registry with the
\* new entry.
C5_Witness ==
    /\ last_op[1] = "add"
    /\ ret = "True"
    /\ last_op[2] \in DOMAIN monitored_items
    /\ file.kind = "json"
    /\ last_op[2] \in DOMAIN file.text
    /\ FileHolds(file, monitored_items)

\* C6 (as claimed): remove_monitored_item returns False and changes nothing
\* when the url is not registered; when it is registered it returns True, the
\* url is gone from the registry and the file has been rewritten without it.
C6_RemovePersistsBeforeReturn ==
    [][\A u \in URLS :
        (RemoveStep(u) /\ Returns) =>
            IF u \notin DOMAIN monitored_items
            THEN ret' = "False" /\ monitored_items' = monitored_items /\ file' = file
            ELSE /\ ret' = "True"
                 /\ Deleted(u)
                 /\ FileHolds(file', monitored_items')]_vars

\* C6 (amended): ... the file has been rewritten without the url unless the
\* write raised; then the error is only logged, remove still returns True,
\* and the file is as it was or truncated.
C6_RemovePersistsUnlessWriteFails ==
    [][\A u \in URLS :
        (RemoveStep(u) /\ Returns) =>
            IF u \notin DOMAIN monitored_items
            THEN ret' = "False" /\ monitored_items' = monitored_items /\ file' = file
            ELSE /\ ret' = "True"
                 /\ Deleted(u)
                 /\ faults' = faults => FileHolds(file', monitored_items')
                 /\ faults' # faults => file' \in {file, PartialFile}]_vars

\* C6 witness: a remove returned True, one entry is left, and the file holds
\* the registry without the removed url.
C6_Witness ==
    /\ last_op[1] = "remove"
    /\ ret = "True"
    /\ last_op[2] \notin DOMAIN monitored_items
    /\ Cardinality(DOMAIN monitored_items) = 1
    /\ file.kind = "json"
    /\ last_op[2] \notin DOMAIN file.text
    /\ FileHolds(file, monitored_items)

(* ===================== properties: failed fetches ====================== *)
\* the step ends the check of an item whose fetch failed (no driver, page-load
\* timeout, WebDriver error)
FailedCheck == pc = "fetch" /\ pc' # "crashed" /\ page'.fetch \in FetchFailures

\* C11 (as claimed): a failed fetch for a registered item whose stored status
\* is not Unknown, the first failure of its streak (so below any threshold),
\* produces no event and leaves the stored status as it was.
C11_FailureKeepsStatus ==
    [][(/\ FailedCheck
        /\ url \in DOMAIN monitored_items
        /\ monitored_items[url]["last_status"] # UNKNOWN
        /\ failures'[url] = 1) =>
            /\ notifications' = notifications
            /\ monitored_items'[url]["last_status"] = monitored_items[url]["last_status"]]_vars

\* C12 (as claimed): with a threshold of 3, failed fetches of an item stored
\* as InStock produce an event only on the third failure in a row, not on the
\* first or the second.
C12_EventOnThirdFailureOnly ==
    [][(/\ FailedCheck
        /\ url \in DOMAIN monitored_items
        /\ monitored_items[url]["last_status"] = IN_STOCK) =>
            (EventAdded <=> failures'[url] = 3)]_vars

\* s is a prefix of t
IsPrefix(s, t) == Len(s) <= Len(t) /\ SubSeq(t, 1, Len(s)) = s

\* C13: a failed fetch does not end the tick: the loop goes on with the same
\* urls left to check, the failure is applied as the result Unknown (the
\* entry's last_check is written), the events collected so far are kept; and
\* a tick ends only when every url of the snapshot has been checked, with the
\* save and the return of the collected events.
C13_FailureDoesNotAbortTick ==
    /\ [][FailedCheck =>
            /\ pc' = "loop"
            /\ todo' = todo
            /\ current_status' = UNKNOWN
            /\ IsPrefix(notifications, notifications')
            /\ url \in DOMAIN monitored_items =>
                    monitored_items'[url]["last_check"] = current_time]_vars
    /\ [][(pc \in {"loop", "fetch"} /\ pc' = "idle" /\ restarts' = restarts) =>
            /\ todo = {}
            /\ pc = "loop"
            /\ returned' = notifications
            /\ faults' = faults => FileHolds(file', monitored_items)]_vars

\* C13 witness: in a tick over two items the fetch of the first failed and
\* the second was then fetched and classified.
C13_Witness ==
    /\ pc = "loop"
    /\ todo = {}
    /\ Cardinality(DOMAIN items_to_check) = 2
    /\ page.fetch = "ok"
    /\ current_status # UNKNOWN
    /\ \E u \in DOMAIN failures : u # url /\ failures[u] = 1

(* ===================== properties: persistence ========================= *)
\* C9 (as claimed): saving the registry and loading it in a fresh Monitor
\* gives the registry that was saved.
C9_SaveLoadRoundTrip ==
    [][(restarts' = restarts + 1 /\ FileHolds(file, monitored_items)) =>
            monitored_items' = monitored_items]_vars

\* C10 (as claimed): after a crash during a save the file holds the complete
\* previous registry or the complete new one.
C10_CrashLeavesOldOrNewFile ==
    [][(pc # "crashed" /\ pc' = "crashed") =>
            (file' = file \/ FileHolds(file', monitored_items'))]_vars

\* C19 (as claimed): a load that meets a corrupt file leaves the registry
\* empty and the corrupt content under the backup name; a load that meets no
\* file leaves the registry empty and writes the file of an empty registry.
C19_CorruptOrMissingLoad ==
    [][(restarts' = restarts + 1) =>
        /\ file.kind = "partial" =>
                monitored_items' = EmptyDict /\ backup_file' = file
        /\ file.kind = "missing" =>
                monitored_items' = EmptyDict /\ FileHolds(file', EmptyDict)]_vars

\* the save of the step raised (and the process lives on)
SaveFails == faults' = faults + 1 /\ pc' # "crashed"
\* the step is an operation that saves: an add of a new url, a remove of a
\* registered url, the end of a tick
SavingStep ==
    \/ \E u \in URLS : AddStep(u) /\ u \notin DOMAIN monitored_items
    \/ \E u \in URLS : RemoveStep(u) /\ u \in DOMAIN monitored_items
    \/ ReturnStep

\* C20: a save that raises does not stop the operation: add and remove
\* return True with the registry changed in memory, a tick returns its
\* events and the task goes on; and every save that succeeds, so also the
\* first one after a failure, leaves in the file the whole registry in memory.
C20_WriteFailureTolerated ==
    /\ [][SaveFails =>
            /\ \A u \in URLS : AddStep(u) => ret' = "True" /\ Inserted(u) /\ pc' = pc
            /\ \A u \in URLS : RemoveStep(u) => ret' = "True" /\ Deleted(u) /\ pc' = pc
            /\ pc = "loop" =>
                    /\ pc' = "idle"
                    /\ returned' = notifications
                    /\ monitored_items' = monitored_items]_vars
    /\ [][(SavingStep /\ faults' = faults) => FileHolds(file', monitored_items')]_vars

\* C20 witness: the save of a first add raised, a second add saved, and the
\* file holds both entries.
C20_Witness ==
    /\ pc = "idle"
    /\ now = 0
    /\ restarts = 0
    /\ calls = 2
    /\ faults = 1
    /\ Cardinality(DOMAIN monitored_items) = 2
    /\ FileHolds(file, monitored_items)

(* ======================= properties: the tasks ========================= *)
\* the checks in flight: the tasks waiting in check_item_status
InFlight == { t \in DOMAIN monitor_tasks : monitor_tasks[t].pc = "fetch" }

\* C14 (as claimed, with the pool size 3 of the claim's example): at every
\* moment at most 3 item fetches are in flight.
C14_AtMostThreeInFlight == Cardinality(InFlight) <= 3

\* C15: once the cancellation of a monitoring task is requested, in its sleep
\* or during a tick, the task starts no item check and no tick any more (its
\* only step is its exit), and it does exit.
C15_CancelStopsTask ==
    /\ [][\A t \in DOMAIN monitor_tasks :
            monitor_tasks[t].cancel =>
                /\ monitor_tasks'[t].cancel
                /\ monitor_tasks'[t].pc \in {monitor_tasks[t].pc, "done"}
                /\ monitor_tasks'[t].pc = "fetch" =>
                        monitor_tasks'[t].url = monitor_tasks[t].url]_vars
    /\ \A t \in 1..MaxReady :
            (t \in DOMAIN monitor_tasks /\ monitor_tasks[t].cancel)
                ~> (t \in DOMAIN monitor_tasks /\ monitor_tasks[t].pc = "done")

\* C15 witness: a task cancelled while it waited for an item's check has
\* exited, while another task is in the middle of a tick.
C15_Witness ==
    \E t, t2 \in DOMAIN monitor_tasks :
        /\ monitor_tasks[t].pc = "done"
        /\ monitor_tasks[t].exit = "fetch"
        /\ monitor_tasks[t2].pc = "fetch"

\* C22 (as claimed): when a monitoring task goes to sleep after a tick, it
\* sleeps the configured check_interval; and a task starts a tick only when
\* it was created or from that sleep.
C22_SleepsCheckInterval ==
    [][\A t \in DOMAIN monitor_tasks :
        /\ (monitor_tasks[t].pc # "sleep" /\ monitor_tasks'[t].pc = "sleep") =>
                monitor_tasks'[t].sleep = check_interval
        /\ (monitor_tasks[t].pc \notin {"loop", "fetch"}
                /\ monitor_tasks'[t].pc \in {"loop", "fetch"}) =>
                monitor_tasks[t].pc \in {"created", "sleep"}]_vars

\* the monitoring tasks that exist: created and not ended
LiveTasks == { t \in DOMAIN monitor_tasks : monitor_tasks[t].pc # "done" }

\* C25 (as claimed): at most one monitoring task exists at any time, and so
\* at most one tick is in progress, however often on_ready fires.
C25_SingleMonitorLoop ==
    /\ Cardinality(LiveTasks) <= 1
    /\ Cardinality(InFlight) <= 1

(* ====================== properties: the classifier ===================== *)
\* C21 (as claimed): when check_item_status has returned, on whatever path,
\* it holds no driver and none of the temporary directories made for it.
C21_NothingHeldAfterCheck ==
    result[1] # NotCalled => held = NothingHeld

\* the indicator families present in a page text
HasOffShelfText(html) == any_keyword(not_found_indicators, lower(html))
HasSoldOutText(html) == any_keyword(SOLD_OUT_KEYWORDS, lower(html))
HasComingSoonText(html) == any_keyword(COMING_SOON_KEYWORDS, lower(html))
HasAvailableText(html) == any_keyword(AVAILABLE_KEYWORDS, lower(html))

\* the status the fixed precedence gives when `off_shelf` decides the first rule
ByPrecedence(off_shelf, html) ==
    IF off_shelf THEN OFF_SHELF
    ELSE IF HasSoldOutText(html) THEN SOLD_OUT
    ELSE IF HasComingSoonText(html) THEN COMING_SOON
    ELSE IF HasAvailableText(html) THEN IN_STOCK
    ELSE UNKNOWN

\* check_item_status was called on a page that was fetched
Classified == result[1] # NotCalled /\ page.fetch = "ok"

\* the 404 probe flags the page: it does not raise, and the HTTP status is
\* 404, or the URL or the title carries an error marker, or at least two of
\* the three key elements are missing and the text holds a not-found indicator
ProbeFlags(pg) ==
    /\ ~pg.probe_error
    /\ \/ pg.response_status = 404
       \/ pg.url_marker
       \/ pg.title_marker
       \/ pg.missing_elements \in {2, 3} /\ HasOffShelfText(pg.html)

\* C7 (as claimed): the status is decided by the indicator families in the
\* page text, off-shelf before sold-out before coming-soon before available,
\* else Unknown; a price comes only with InStock.
C7_PrecedenceOverText ==
    Classified =>
        /\ result[1] = ByPrecedence(HasOffShelfText(page.html), page.html)
        /\ result[2] # None => result[1] = IN_STOCK

\* C7 (amended): OffShelf is returned exactly when the 404 probe flags the
\* page (a not-found indicator in the text is neither needed nor enough);
\* otherwise the text decides, sold-out before coming-soon before available,
\* else Unknown; a price comes only with InStock.
C7_PrecedenceAfterProbe ==
    Classified =>
        /\ result[1] = ByPrecedence(ProbeFlags(page), page.html)
        /\ result[2] # None => result[1] = IN_STOCK

\* C7 witness: a text with a sold-out keyword that is also a coming-soon
\* keyword (NOTIFY ME WHEN AVAILABLE) and an available keyword was
\* classified SoldOut.
C7_Witness ==
    /\ Classified
    /\ Contains(<<"NOTIFY", "ME", "WHEN", "AVAILABLE">>, page.html)
    /\ HasComingSoonText(page.html)
    /\ HasAvailableText(page.html)
    /\ result = <<SOLD_OUT, None>>

\* C8 (as claimed): for a page text with a sold-out and an available
\* indicator (on a page the 404 probe does not flag) check_item_status
\* returns SOLD_OUT and check_product_availability returns False.
C8_SoldOutBeatsAvailableEverywhere ==
    (/\ Classified
     /\ available # NotCalled
     /\ ~ProbeFlags(page)
     /\ HasSoldOutText(page.html)
     /\ HasAvailableText(page.html)) =>
        /\ result[1] = SOLD_OUT
        /\ available = "False"

====
